---- MODULE Spec2Model ----
(***************************************************************************)
(* Basic Maths MCP server (src/server.py): five tools, each a try/except   *)
(* around one arithmetic expression.  A tool call is modelled as a frame   *)
(* (the call's local variables and position); the evaluator helper         *)
(* _make_api_request is also exercised on its own as a pure function.      *)
(*                                                                         *)
(* Python values are modelled by what the interpreter produces:            *)
(*   - int is exact and unbounded; the model keeps it exact and bounds the *)
(*     inputs so every intermediate value stays inside MaxMagnitude;       *)
(*   - int ** negative int is a float; it is kept as the exact rational    *)
(*     num/den (den > 0) with type "float";                                *)
(*   - `raise obj` of an object that is not an exception raises TypeError. *)
(***************************************************************************)
EXTENDS Integers, FiniteSets, Sequences, TLC

VARIABLES frame, request, reply

vars == <<frame, request, reply>>

---------------------------------------------------------------------------
(* Bounds of the model *)

MaxOperand == 12

MaxExponent == 10

MaxMagnitude == 1000000

MaxConcOperand == 2

(* Operand values near the result limit, beside the small range. *)
Landmarks == {-1000, -501, 500, 501, 999, 1000, 1001}

Operands == (-MaxOperand .. MaxOperand) \cup Landmarks

Exponents == -MaxExponent .. MaxExponent

ConcOperands == -MaxConcOperand .. MaxConcOperand

ToolNames == {"add", "subtract", "multiply", "divide", "power"}

(* Operation names handed to the evaluator on its own: the five tool      *)
(* names and two names that are none of them.                             *)
OperationNames == ToolNames \cup {"modulo", ""}

---------------------------------------------------------------------------
(* Python values and exceptions *)

CHARACTER_LIMIT == 1000

Abs(n) == IF n < 0 THEN -n ELSE n

NoValue == [type |-> "none", num |-> 0, den |-> 1]

IntVal(n) == [type |-> "int", num |-> n, den |-> 1]

FloatVal(n, d) == [type |-> "float", num |-> n, den |-> d]

NoExc == [type |-> "none", msg |-> ""]

Exc(t, m) == [type |-> t, msg |-> m]

NoPayload == [error |-> "", details |-> ""]

(* The result of evaluating an expression or a call: a value or a raise. *)
Returned(v) == [raised |-> FALSE, value |-> v, exc |-> NoExc]

Raised(x) == [raised |-> TRUE, value |-> NoValue, exc |-> x]

ZeroDivisionMsg == "integer division or modulo by zero"

ZeroPowerMsg == "0.0 cannot be raised to a negative power"

(* Truncating quotient of magnitudes, sign restored: rounds toward zero. *)
PyTruncDiv(a, b) ==
    IF (a < 0) = (b < 0) THEN Abs(a) \div Abs(b) ELSE -(Abs(a) \div Abs(b))

(* Python's a // b for ints, b # 0. *)
PyFloorDiv(a, b) ==
    LET q == Abs(a) \div Abs(b)
        exact == q * Abs(b) = Abs(a)
    IN  IF (a < 0) = (b < 0) \/ a = 0 THEN q
        ELSE IF exact THEN -q ELSE -q - 1

RECURSIVE IntPow(_, _)
IntPow(a, n) == IF n = 0 THEN 1 ELSE a * IntPow(a, n - 1)

(* |a| ** n stays inside MaxMagnitude (and so does every partial product). *)
RECURSIVE PowFits(_, _)
PowFits(a, n) ==
    IF n = 0 THEN TRUE
    ELSE IF PowFits(a, n - 1)
         THEN Abs(a) * Abs(IntPow(a, n - 1)) <= MaxMagnitude
         ELSE FALSE

(* Python's a ** b for ints a, b. *)
PyPow(a, b) ==
    IF b >= 0 THEN Returned(IntVal(IntPow(a, b)))
    ELSE IF a = 0 THEN Raised(Exc("ZeroDivisionError", ZeroPowerMsg))
    ELSE LET p == IntPow(a, -b)
         IN  Returned(FloatVal(IF p < 0 THEN -1 ELSE 1, Abs(p)))

(* result > CHARACTER_LIMIT, symmetrised. *)
ExceedsMagnitude(v) == Abs(v.num) > CHARACTER_LIMIT * v.den

(* result > CHARACTER_LIMIT, for an int or a float result. *)
ExceedsLimit(v) == v.num > CHARACTER_LIMIT * v.den

---------------------------------------------------------------------------
(* Validators the module defines; no tool constructs these models. *)

validate_result(result) ==
    IF result > CHARACTER_LIMIT
    THEN Raised(Exc("ValueError", "Result exceeds character limit"))
    ELSE Returned(IntVal(result))

validate_divisor(v) ==
    IF v = 0
    THEN Raised(Exc("ValueError", "Division by zero is not allowed"))
    ELSE Returned(IntVal(v))

---------------------------------------------------------------------------
(* The evaluator helper *)

_make_api_request_swapped(operation, a, b) ==
    IF operation = "add" THEN Returned(IntVal(a + b))
    ELSE IF operation = "subtract" THEN Returned(IntVal(b - a))
    ELSE IF operation = "multiply" THEN Returned(IntVal(a * b))
    ELSE IF operation = "divide" THEN
        IF b = 0 THEN Raised(Exc("ZeroDivisionError", ZeroDivisionMsg))
        ELSE Returned(IntVal(PyFloorDiv(a, b)))
    ELSE Raised(Exc("ValueError", "Unknown operation"))

_make_api_request_lenient(operation, a, b) ==
    IF operation = "add" THEN Returned(IntVal(a + b))
    ELSE IF operation = "subtract" THEN Returned(IntVal(a - b))
    ELSE IF operation = "multiply" THEN Returned(IntVal(a * b))
    ELSE IF operation = "divide" THEN
        IF b = 0 THEN Raised(Exc("ZeroDivisionError", ZeroDivisionMsg))
        ELSE Returned(IntVal(PyFloorDiv(a, b)))
    ELSE Returned(IntVal(0))

_make_api_request(operation, a, b) ==
    IF operation = "add" THEN Returned(IntVal(a + b))
    ELSE IF operation = "subtract" THEN Returned(IntVal(a - b))
    ELSE IF operation = "multiply" THEN Returned(IntVal(a * b))
    ELSE IF operation = "divide" THEN
        IF b = 0 THEN Raised(Exc("ZeroDivisionError", ZeroDivisionMsg))
        ELSE Returned(IntVal(PyFloorDiv(a, b)))
    ELSE Raised(Exc("ValueError", "Unknown operation"))

(* ErrorResponse(error=str(error), details=...): a pydantic model, not an *)
(* exception.                                                             *)
_handle_api_error(error) ==
    [cls |-> "ErrorResponse", isException |-> FALSE,
     error |-> error.msg, details |-> "An error occurred during computation"]

---------------------------------------------------------------------------
(* Outcomes of a tool call, as its caller sees them *)

NoOutcome ==
    [kind |-> "none", value |-> NoValue, exc |-> NoExc, payload |-> NoPayload]

ReturnOutcome(v) ==
    [kind |-> "return", value |-> v, exc |-> NoExc, payload |-> NoPayload]

RaiseOutcome(x) ==
    [kind |-> "raise", value |-> NoValue, exc |-> x, payload |-> NoPayload]

(* `raise obj`: obj propagates when it is an exception; otherwise the      *)
(* raise statement itself fails with TypeError, which propagates.          *)
PyRaise(obj) ==
    IF obj.isException
    THEN RaiseOutcome(Exc(obj.cls, obj.error))
    ELSE RaiseOutcome(Exc("TypeError", "exceptions must derive from BaseException"))

---------------------------------------------------------------------------
(* Frames *)

IdleFrame ==
    [pc |-> "idle", tool |-> "none", a |-> 0, b |-> 0,
     result |-> NoValue, e |-> NoExc, outcome |-> NoOutcome]

Slots == DOMAIN frame

(* Another call's `result`, as if the name were shared between calls. *)
SharedResult(s) == frame[1].result

(* The call's own local variable `result`. *)
LocalResult(s) == frame[s].result

NoRequest == [operation |-> "none", a |-> 0, b |-> 0]

NoReply == [pc |-> "ready", raised |-> FALSE, value |-> NoValue, exc |-> NoExc]

Init ==
    /\ frame = [s \in {1} |-> IdleFrame]
    /\ request = NoRequest
    /\ reply = NoReply

InitConc ==
    /\ frame = [s \in {1, 2} |-> IdleFrame]
    /\ request = NoRequest
    /\ reply = NoReply

(* The protocol framework calls a tool with two ints. *)
Invoke(s, ops, exps) ==
    /\ frame[s].pc = "idle"
    /\ \E tool \in ToolNames, a \in ops :
         \E b \in (IF tool = "power" THEN exps ELSE ops) :
           /\ tool = "power" => PowFits(a, Abs(b))
           /\ frame' = [frame EXCEPT ![s] =
                  [IdleFrame EXCEPT !.pc = "try", !.tool = tool, !.a = a, !.b = b]]
    /\ UNCHANGED <<request, reply>>

(* result = <expression>, inside try: the value is bound, or the raise    *)
(* enters the except clause with e bound.                                 *)
Bind(s, r) ==
    frame' = [frame EXCEPT ![s] =
        IF r.raised
        THEN [@ EXCEPT !.pc = "except", !.e = r.exc]
        ELSE [@ EXCEPT !.pc = "return", !.result = r.value]]

maths_add_numbers(s) ==
    /\ frame[s].pc = "try" /\ frame[s].tool = "add"
    /\ Bind(s, _make_api_request("add", frame[s].a, frame[s].b))
    /\ UNCHANGED <<request, reply>>

maths_subtract_numbers(s) ==
    /\ frame[s].pc = "try" /\ frame[s].tool = "subtract"
    /\ Bind(s, _make_api_request("subtract", frame[s].a, frame[s].b))
    /\ UNCHANGED <<request, reply>>

maths_multiply_numbers(s) ==
    /\ frame[s].pc = "try" /\ frame[s].tool = "multiply"
    /\ Bind(s, _make_api_request("multiply", frame[s].a, frame[s].b))
    /\ UNCHANGED <<request, reply>>

maths_divide_numbers(s) ==
    /\ frame[s].pc = "try" /\ frame[s].tool = "divide"
    /\ Bind(s, _make_api_request("divide", frame[s].a, frame[s].b))
    /\ UNCHANGED <<request, reply>>

maths_power_numbers(s) ==
    /\ frame[s].pc = "try" /\ frame[s].tool = "power"
    /\ Bind(s, PyPow(frame[s].a, frame[s].b))
    /\ UNCHANGED <<request, reply>>

(* return result (add, subtract, multiply, divide). *)
ReturnResult(s) ==
    /\ frame[s].pc = "return" /\ frame[s].tool # "power"
    /\ frame' = [frame EXCEPT ![s] =
           [@ EXCEPT !.pc = "done", !.outcome = ReturnOutcome(LocalResult(s))]]
    /\ UNCHANGED <<request, reply>>

(* if result > CHARACTER_LIMIT: raise ValueError(...); return result. *)
PowerCheck(s) ==
    /\ frame[s].pc = "return" /\ frame[s].tool = "power"
    /\ frame' = [frame EXCEPT ![s] =
           IF ExceedsLimit(LocalResult(s))
           THEN [@ EXCEPT !.pc = "except",
                          !.e = Exc("ValueError", "Result exceeds character limit")]
           ELSE [@ EXCEPT !.pc = "done",
                          !.outcome = ReturnOutcome(LocalResult(s))]]
    /\ UNCHANGED <<request, reply>>

(* except Exception as e: raise _handle_api_error(e). *)
HandleError(s) ==
    /\ frame[s].pc = "except"
    /\ frame' = [frame EXCEPT ![s] =
           [@ EXCEPT !.pc = "done",
                     !.outcome = PyRaise(_handle_api_error(frame[s].e))]]
    /\ UNCHANGED <<request, reply>>

(* The call is over and its frame is gone. *)
Finish(s) ==
    /\ frame[s].pc = "done"
    /\ frame' = [frame EXCEPT ![s] = IdleFrame]
    /\ UNCHANGED <<request, reply>>

Steps ==
    \/ \E s \in Slots : maths_add_numbers(s)
    \/ \E s \in Slots : maths_subtract_numbers(s)
    \/ \E s \in Slots : maths_multiply_numbers(s)
    \/ \E s \in Slots : maths_divide_numbers(s)
    \/ \E s \in Slots : maths_power_numbers(s)
    \/ \E s \in Slots : ReturnResult(s)
    \/ \E s \in Slots : PowerCheck(s)
    \/ \E s \in Slots : HandleError(s)
    \/ \E s \in Slots : Finish(s)

Next ==
    \/ \E s \in Slots : Invoke(s, Operands, Exponents)
    \/ Steps

Spec == Init /\ [][Next]_vars

NextConc ==
    \/ \E s \in Slots : Invoke(s, ConcOperands, ConcOperands)
    \/ Steps

SpecConc == InitConc /\ [][NextConc]_vars

---------------------------------------------------------------------------
(* The evaluator on its own, applied to any operation name *)

EvalRequest ==
    /\ reply.pc = "ready"
    /\ \E operation \in OperationNames, a \in ConcOperands, b \in ConcOperands :
         request' = [operation |-> operation, a |-> a, b |-> b]
    /\ reply' = [reply EXCEPT !.pc = "called"]
    /\ UNCHANGED frame

EvalApply ==
    /\ reply.pc = "called"
    /\ LET r == _make_api_request(request.operation, request.a, request.b)
       IN  reply' = [pc |-> "replied", raised |-> r.raised,
                     value |-> r.value, exc |-> r.exc]
    /\ UNCHANGED <<frame, request>>

EvalReset ==
    /\ reply.pc = "replied"
    /\ request' = NoRequest
    /\ reply' = NoReply
    /\ UNCHANGED frame

NextEval == EvalRequest \/ EvalApply \/ EvalReset

SpecEval == Init /\ [][NextEval]_vars

---------------------------------------------------------------------------
(* Properties *)

Done(s) == frame[s].pc = "done"

Returns(s, v) == frame[s].outcome.kind = "return" /\ frame[s].outcome.value = v

(* The call ended by handing its caller a structured ErrorPayload with    *)
(* this error message and the fixed details string.                       *)
StructuredError(s, msg) ==
    /\ frame[s].outcome.kind = "error"
    /\ frame[s].outcome.payload.error = msg
    /\ frame[s].outcome.payload.details = "An error occurred during computation"

TooLargeMsg == "Result exceeds character limit"

(* C1: no tool call returns a value greater than 1000; a call whose      *)
(* computed result exceeds 1000 ends in the ResultTooLarge error instead. *)
C1_NoResultAboveLimit ==
    \A s \in Slots :
        Done(s) =>
            /\ ~(/\ frame[s].outcome.kind = "return"
                 /\ frame[s].outcome.value.num
                        > CHARACTER_LIMIT * frame[s].outcome.value.den)
            /\ (frame[s].result.num > CHARACTER_LIMIT * frame[s].result.den
                    => StructuredError(s, TooLargeMsg))

(* C2: a call in which a failure was raised ends with a structured        *)
(* ErrorPayload carrying the original failure message and the fixed       *)
(* details string; no raw exception propagates out of the call.           *)
C2_FailuresAreStructured ==
    \A s \in Slots :
        /\ Done(s) => frame[s].outcome.kind # "raise"
        /\ (Done(s) /\ frame[s].e # NoExc) => StructuredError(s, frame[s].e.msg)

(* C3: divide(a, 0) returns no number and fails with the DivisionByZero   *)
(* error 'Division by zero is not allowed', raised by validating the      *)
(* divisor (a ValueError), not by computing the quotient.                 *)
C3_DivideByZeroRejected ==
    \A s \in Slots :
        (Done(s) /\ frame[s].tool = "divide" /\ frame[s].b = 0) =>
            /\ frame[s].outcome.kind # "return"
            /\ frame[s].e = Exc("ValueError", "Division by zero is not allowed")
            /\ StructuredError(s, "Division by zero is not allowed")

(* C4: when the result has magnitude at most 1000, add returns a + b,     *)
(* subtract returns a - b and multiply returns a * b, exactly.            *)
C4_ExactArithmetic ==
    \A s \in Slots :
        Done(s) =>
            LET a == frame[s].a
                b == frame[s].b
            IN  /\ (frame[s].tool = "add" /\ Abs(a + b) <= CHARACTER_LIMIT)
                       => Returns(s, IntVal(a + b))
                /\ (frame[s].tool = "subtract" /\ Abs(a - b) <= CHARACTER_LIMIT)
                       => Returns(s, IntVal(a - b))
                /\ (frame[s].tool = "multiply" /\ Abs(a * b) <= CHARACTER_LIMIT)
                       => Returns(s, IntVal(a * b))

C4_Witness ==
    \E s \in Slots :
        /\ Done(s) /\ frame[s].tool = "subtract"
        /\ frame[s].a = 7 /\ frame[s].b = -5
        /\ Returns(s, IntVal(12))

(* C5: for b # 0, divide(a, b) returns the integer q with                 *)
(* b * q + r = a, where r has the sign of b and |r| < |b| (the floor of   *)
(* a / b); divide(7, 2) = 3 and divide(-7, 2) = -4.                       *)
C5_FloorDivision ==
    \A s \in Slots :
        (Done(s) /\ frame[s].tool = "divide" /\ frame[s].b # 0) =>
            LET a == frame[s].a
                b == frame[s].b
                q == frame[s].outcome.value.num
                r == a - b * q
            IN  /\ frame[s].outcome.kind = "return"
                /\ frame[s].outcome.value.type = "int"
                /\ b > 0 => (0 <= r /\ r < b)
                /\ b < 0 => (b < r /\ r <= 0)
                /\ (a = 7 /\ b = 2) => q = 3
                /\ (a = -7 /\ b = 2) => q = -4

C5_Witness ==
    \E s \in Slots :
        /\ Done(s) /\ frame[s].tool = "divide"
        /\ frame[s].a = -7 /\ frame[s].b = 2
        /\ Returns(s, IntVal(-4))

(* C6: for b >= 0, power(a, b) returns a ** b when that is at most 1000,  *)
(* and otherwise ends in the ResultTooLarge error 'Result exceeds         *)
(* character limit' instead of returning the value.                       *)
C6_PowerWithinLimit ==
    \A s \in Slots :
        (Done(s) /\ frame[s].tool = "power" /\ frame[s].b >= 0) =>
            LET p == IntPow(frame[s].a, frame[s].b)
            IN  /\ p <= CHARACTER_LIMIT => Returns(s, IntVal(p))
                /\ p > CHARACTER_LIMIT =>
                       /\ frame[s].outcome.kind # "return"
                       /\ StructuredError(s, TooLargeMsg)

(* C7: a call that returns a value returns an integer; power with a       *)
(* negative exponent never returns a non-integer value.                   *)
C7_ReturnsOnlyIntegers ==
    \A s \in Slots :
        (Done(s) /\ frame[s].outcome.kind = "return")
            => frame[s].outcome.value.type = "int"

(* C8: two calls of the same tool with the same operands end in the same  *)
(* outcome, whatever other calls ran before, between or interleaved with  *)
(* them.                                                                  *)
C8_SameInputsSameOutcome ==
    \A s \in Slots, t \in Slots :
        (/\ Done(s) /\ Done(t)
         /\ frame[s].tool = frame[t].tool
         /\ frame[s].a = frame[t].a
         /\ frame[s].b = frame[t].b)
            => frame[s].outcome = frame[t].outcome

C8_Witness ==
    /\ Slots = {1, 2}
    /\ Done(1) /\ Done(2)
    /\ frame[1].tool = "subtract" /\ frame[2].tool = "subtract"
    /\ frame[1].a = 2 /\ frame[2].a = 2
    /\ frame[1].b = -1 /\ frame[2].b = -1
    /\ Returns(1, IntVal(3)) /\ Returns(2, IntVal(3))

(* C9: the ResultTooLarge failure is raised only for a computed result    *)
(* strictly greater than 1000; a computed result of at most 1000 - 1000   *)
(* itself, and any negative result however large - is returned as it is.  *)
C9_OneSidedCap ==
    \A s \in Slots :
        /\ frame[s].e.msg = TooLargeMsg
               => frame[s].result.num > CHARACTER_LIMIT * frame[s].result.den
        /\ (/\ Done(s)
            /\ frame[s].result.type = "int"
            /\ frame[s].result.num <= CHARACTER_LIMIT)
               => Returns(s, frame[s].result)

C9_Witness ==
    \E s \in Slots :
        /\ Done(s) /\ frame[s].tool = "power"
        /\ frame[s].a = -11 /\ frame[s].b = 3
        /\ Returns(s, IntVal(-1331))

C9_WitnessAtLimit ==
    \E s \in Slots :
        /\ Done(s) /\ frame[s].tool = "power"
        /\ frame[s].a = 10 /\ frame[s].b = 3
        /\ Returns(s, IntVal(CHARACTER_LIMIT))

UnknownOperation(r) ==
    r.raised /\ r.exc = Exc("ValueError", "Unknown operation") /\ r.value = NoValue

(* C10 as stated: the evaluator fails with 'Unknown operation', and       *)
(* computes no value, exactly for the names that are not one of the five  *)
(* (add, subtract, multiply, divide, power).                              *)
C10_FiveNamesKnown ==
    reply.pc = "replied" =>
        (UnknownOperation(reply) <=> request.operation \notin ToolNames)

EvaluatorNames == {"add", "subtract", "multiply", "divide"}

(* C10 amended: the evaluator fails with 'Unknown operation', and         *)
(* computes no value, exactly for the names that are not one of the four  *)
(* it implements (add, subtract, multiply, divide); 'power' is such a     *)
(* name.                                                                  *)
C10_FourNamesKnown ==
    reply.pc = "replied" =>
        (UnknownOperation(reply) <=> request.operation \notin EvaluatorNames)

C10_Witness ==
    /\ reply.pc = "replied"
    /\ request.operation = "power"
    /\ UnknownOperation(reply)

====
